---- MODULE Spec2Model ----
(***************************************************************************)
(* The ingestion pipeline of the Solana data aggregator: the poller loop   *)
(* (data_retrieval.rs), the parser and validator (data_processing.rs) and  *)
(* the PostgreSQL store (data_storage.rs).                                 *)
(*                                                                         *)
(* Strings are sequences of one-character strings.  Option<T> is a         *)
(* sequence of length at most one.  u64 and i64 are modelled with          *)
(* WordBits bits.  Time is counted in seconds, relative to the deadline    *)
(* of the interval timer.  The poller is modelled with a database          *)
(* (database = Some(db)), the case lines 108-114 are about.                *)
(***************************************************************************)
EXTENDS FiniteSets, Integers, Sequences, TLC

VARIABLES
    pc,            \* position of the poller task in monitor_blockchain
    until,         \* seconds from now to the interval's next deadline (<= 0: due)
    ledger,        \* ids of the transactions the RPC node knows for the address
    signatures,    \* fetch_epoch_data: result of fetch_transaction_signatures
    fetch_ok,      \* per signature: did get_transaction_with_config return Ok
    transactions,  \* result of fetch_transactions: this cycle's batch
    processed,     \* monitor_blockchain: processed_txns
    idx,           \* position of the insert loop in processed_txns
    attempted,     \* this cycle's calls of insert_transaction: record and outcome
    n_parsed,      \* records parse_transaction returned in this cycle
    last_result,   \* outcome of the last fetch_epoch_data: "none", "ok", "err"
    store,         \* rows of table transactions, in id order
    table_exists,  \* does table transactions exist in the database
    response,      \* the last response of GET /transactions
    stop_requested, \* has the process been asked to terminate
    steps,         \* the calls completed so far in this cycle, in order
    examined,      \* transactions process_transactions has consumed so far
    cycles         \* cycles started since the table was created

vars == <<pc, until, ledger, signatures, fetch_ok, transactions, processed,
          idx, attempted, n_parsed, last_result, store, table_exists,
          response, stop_requested, steps, examined, cycles>>

\* what the poller task never touches
outside == <<table_exists, response, stop_requested>>

\* what only the statement-by-statement actions of the cycle keep
stepwise == <<steps, examined, cycles>>

-----------------------------------------------------------------------------
(* Bounds of the model *)

WordBits == 4
MaxRows == 2
MaxLag == 25

\* cycles the statement-by-statement poller may start
MaxCycles == 2

(* Program constants *)

SigLimit == 3
Period == 10
PubkeyLen == 44
RegexMin == 32
RegexMax == 44

-----------------------------------------------------------------------------
(* Integers of the program *)

Modulus == 2 ^ WordBits
U64Max == Modulus - 1
I64Max == (Modulus \div 2) - 1

\* a cast that saturates instead of reinterpreting the bits
as_i64_saturating(x) == IF x > I64Max THEN I64Max ELSE x

\* `x as i64` for a u64 x: the same bits read as two's complement
as_i64(x) == IF x > I64Max THEN x - Modulus ELSE x

\* `y as u64` for an i64 y
as_u64(y) == IF y < 0 THEN y + Modulus ELSE y

\* u64 subtraction with overflow checks off: wraps
wrapping_sub(a, b) == (a - b + Modulus) % Modulus

-----------------------------------------------------------------------------
(* Strings *)

Rep(c, n) == [i \in 1..n |-> c]

Base58 ==
    {"1", "2", "3", "4", "5", "6", "7", "8", "9"} \cup
    {"A", "B", "C", "D", "E", "F", "G", "H"} \cup
    {"J", "K", "L", "M", "N"} \cup
    {"P", "Q", "R", "S", "T", "U", "V", "W", "X", "Y", "Z"} \cup
    {"a", "b", "c", "d", "e", "f", "g", "h", "i", "j", "k"} \cup
    {"m", "n", "o", "p", "q", "r", "s", "t", "u", "v", "w", "x", "y", "z"}

\* Regex ^[1-9A-HJ-NP-Za-km-z]{32,44}$
re_is_match(s) ==
    /\ Len(s) >= RegexMin
    /\ Len(s) <= RegexMax
    /\ \A i \in 1..Len(s) : s[i] \in Base58

None == <<>>
Some(x) == <<x>>

-----------------------------------------------------------------------------
(* Validator: data_processing.rs *)

is_valid_signature(signature) == Len(signature) # 0

\* a key check that trusts the regex alone
is_valid_pubkey_regex_only(pubkey) == re_is_match(pubkey)

is_valid_pubkey(pubkey) == Len(pubkey) = PubkeyLen /\ re_is_match(pubkey)

\* a check that lets a transfer to oneself through
is_valid_sender_receiver_any(sender, receiver) == TRUE

is_valid_sender_receiver(sender, receiver) == sender # receiver

\* an amount check that accepts zero
is_valid_amount_or_zero(amount) == amount >= 0

is_valid_amount(amount) == amount > 0

is_valid_fee(fee) == fee > 0

is_valid_timestamp(timestamp) == timestamp >= 0

is_valid_blockhash(hash) == Len(hash) = PubkeyLen /\ re_is_match(hash)

is_valid_transaction(txn) ==
    /\ is_valid_signature(txn.signature)
    /\ is_valid_pubkey(txn.sender)
    /\ is_valid_pubkey(txn.receiver)
    /\ is_valid_sender_receiver(txn.sender, txn.receiver)
    /\ is_valid_amount(txn.sol_amount)
    /\ is_valid_fee(txn.fee)
    /\ is_valid_timestamp(txn.timestamp)
    /\ is_valid_blockhash(txn.prev_blockhash)

-----------------------------------------------------------------------------
(* Parser: data_processing.rs *)

\* The index of the balance arrays parse_transaction reads
BalanceIndex == 2

\* parse_transaction reaches line 71 (no early return before it)
reaches_amount(txn) ==
    /\ txn.encoding = "json"
    /\ txn.message = "parsed"
    /\ txn.meta = "some"

\* parse_transaction panics: index out of bounds at line 71, or, when the build
\* has overflow checks on, subtraction overflow at line 71
parse_panics(txn, overflow_checks) ==
    IF ~reaches_amount(txn) THEN FALSE
    ELSE IF Len(txn.post_balances) < BalanceIndex THEN TRUE
    ELSE IF Len(txn.pre_balances) < BalanceIndex THEN TRUE
    ELSE /\ overflow_checks
         /\ txn.post_balances[BalanceIndex] < txn.pre_balances[BalanceIndex]

\* The TransactionData parse_transaction builds once it is past its early
\* returns (lines 51-93)
parsed_record(txn) ==
    [ signature |-> IF txn.signatures = <<>> THEN <<>> ELSE Head(txn.signatures),
      sender |-> IF txn.account_keys = <<>> THEN <<>> ELSE Head(txn.account_keys),
      receiver |-> IF txn.account_keys = <<>> THEN <<>>
                   ELSE txn.account_keys[Len(txn.account_keys)],
      sol_amount |-> wrapping_sub(txn.post_balances[BalanceIndex],
                                  txn.pre_balances[BalanceIndex]),
      fee |-> txn.fee,
      timestamp |-> IF txn.block_time = None THEN 0 ELSE txn.block_time[1],
      prev_blockhash |-> txn.recent_blockhash ]

\* the balance arrays reach the index line 71 reads
has_balances(txn) ==
    /\ Len(txn.post_balances) >= BalanceIndex
    /\ Len(txn.pre_balances) >= BalanceIndex

\* a parser that takes a raw message for a parsed one
parse_transaction_any_message(txn) ==
    IF txn.encoding # "json" THEN None
    ELSE IF txn.meta # "some" THEN None
    ELSE IF ~has_balances(txn) THEN None
    ELSE Some(parsed_record(txn))

\* a parser that goes on without the metadata
parse_transaction_without_meta(txn) ==
    IF txn.encoding # "json" THEN None
    ELSE IF txn.message # "parsed" THEN None
    ELSE IF ~has_balances(txn) THEN None
    ELSE Some(parsed_record(txn))

\* parse_transaction where it does not panic: None or Some(TransactionData)
parse_transaction(txn) ==
    IF txn.encoding # "json" THEN None
    ELSE IF txn.message # "parsed" THEN None
    ELSE IF txn.meta # "some" THEN None
    ELSE Some(parsed_record(txn))

RECURSIVE filter_map_parse(_)
\* .filter_map(parse_transaction)
filter_map_parse(txns) ==
    IF txns = <<>> THEN <<>>
    ELSE parse_transaction(Head(txns)) \o filter_map_parse(Tail(txns))

\* process_transactions without the .filter(is_valid_transaction) stage
process_transactions_unfiltered(txns) == filter_map_parse(txns)

\* process_transactions where no parse panics
process_transactions(txns) ==
    SelectSeq(filter_map_parse(txns), is_valid_transaction)

process_panics(txns, overflow_checks) ==
    \E i \in 1..Len(txns) : parse_panics(txns[i], overflow_checks)

-----------------------------------------------------------------------------
(* Store: data_storage.rs *)

\* The row INSERT writes for txn_data
row_of(txn_data) ==
    [ signature |-> txn_data.signature,
      sender |-> txn_data.sender,
      receiver |-> txn_data.receiver,
      sol_amount |-> as_i64(txn_data.sol_amount),
      fee |-> as_i64(txn_data.fee),
      timestamp |-> txn_data.timestamp,
      prev_blockhash |-> txn_data.prev_blockhash ]

\* an insert that replaces the table's rows by the new row
insert_transaction_replacing(rows, txn_data) == <<row_of(txn_data)>>

\* insert_transaction when the INSERT succeeds
insert_transaction(rows, txn_data) == Append(rows, row_of(txn_data))

\* a schema setup that drops the table before it creates it
create_table_dropping(exists, rows) == <<>>

\* get_pool: CREATE TABLE IF NOT EXISTS transactions, the rows afterwards
create_table_if_not_exists(exists, rows) == IF exists THEN rows ELSE <<>>

\* get_all_transactions when the SELECT succeeds
get_all_transactions(rows) ==
    [ i \in 1..Len(rows) |->
        [ signature |-> rows[i].signature,
          sender |-> rows[i].sender,
          receiver |-> rows[i].receiver,
          sol_amount |-> as_u64(rows[i].sol_amount),
          fee |-> as_u64(rows[i].fee),
          timestamp |-> rows[i].timestamp,
          prev_blockhash |-> rows[i].prev_blockhash ] ]

-----------------------------------------------------------------------------
(* Ledger: the transactions the RPC node can return *)

ADDRESS_A == Rep("A", PubkeyLen)
ADDRESS_B == Rep("B", PubkeyLen)
BLOCKHASH == Rep("4", PubkeyLen)

SignatureText(id) ==
    CASE id = 1 -> <<"s", "1">>
      [] id = 2 -> <<"s", "2">>
      [] id = 3 -> <<"s", "3">>
      [] id = 4 -> <<"s", "4">>
      [] id = 5 -> <<"s", "5">>
      [] id = 7 -> <<"s", "7">>
      [] OTHER -> <<"s", "6">>

\* A transfer from A to B of 1 lamport at balance index 1
BaseTxn(id) ==
    [ encoding |-> "json",
      message |-> "parsed",
      signatures |-> <<SignatureText(id)>>,
      account_keys |-> <<ADDRESS_A, ADDRESS_B>>,
      recent_blockhash |-> BLOCKHASH,
      meta |-> "some",
      fee |-> 1,
      pre_balances |-> <<10, 5>>,
      post_balances |-> <<8, 6>>,
      block_time |-> Some(5) ]

\* The EncodedConfirmedTransactionWithStatusMeta the node returns for a signature
RawTxn(id) ==
    CASE id = 1 -> BaseTxn(1)
      \* valid, amount above i64::MAX, no block time
      [] id = 2 -> [BaseTxn(2) EXCEPT !.account_keys = <<ADDRESS_B, ADDRESS_A>>,
                                      !.fee = 2,
                                      !.pre_balances = <<U64Max, 1>>,
                                      !.post_balances = <<2, U64Max - 2>>,
                                      !.block_time = None]
      \* balance arrays with one entry
      [] id = 3 -> [BaseTxn(3) EXCEPT !.pre_balances = <<10>>,
                                      !.post_balances = <<9>>]
      \* post-balance below pre-balance at index 1
      [] id = 4 -> [BaseTxn(4) EXCEPT !.pre_balances = <<5, 9>>,
                                      !.post_balances = <<6, 7>>]
      \* one account key: sender = receiver
      [] id = 5 -> [BaseTxn(5) EXCEPT !.account_keys = <<ADDRESS_A>>]
      \* valid, like the first
      [] id = 7 -> BaseTxn(7)
      \* raw message
      [] OTHER -> [BaseTxn(6) EXCEPT !.message = "raw"]

LedgerIds == {1, 2, 3, 4, 5, 6}

\* Results of fetch_transaction_signatures: up to SigLimit distinct signatures
\* a node that ignores the limit of the request
SigLists_Unlimited(ids) ==
    { s \in UNION { [1..n -> ids] : n \in 0..Cardinality(ids) } :
        \A i, j \in 1..Len(s) : i # j => s[i] # s[j] }

SigLists(ids) ==
    { s \in UNION { [1..n -> ids] : n \in 0..SigLimit } :
        \A i, j \in 1..Len(s) : i # j => s[i] # s[j] }

-----------------------------------------------------------------------------
(* Ledger client: data_retrieval.rs *)

RECURSIVE fetch_transactions_from(_, _, _)
\* the loop of fetch_transactions from signature i on
fetch_transactions_from(sigs, ok, i) ==
    IF i > Len(sigs) THEN <<>>
    ELSE (IF ok[i] THEN <<RawTxn(sigs[i])>> ELSE <<>>)
         \o fetch_transactions_from(sigs, ok, i + 1)

\* fetch_transactions giving up on the first failed fetch
fetch_transactions_all_or_nothing(sigs, ok) ==
    IF \E i \in 1..Len(sigs) : ~ok[i] THEN <<>>
    ELSE fetch_transactions_from(sigs, ok, 1)

\* fetch_transactions: a failed get_transaction_with_config is skipped
fetch_transactions(sigs, ok) == fetch_transactions_from(sigs, ok, 1)

-----------------------------------------------------------------------------
(* Poller: monitor_blockchain *)

\* no request has been answered yet
NoResponse == [read |-> "none", status |-> "none", body |-> <<>>]

Init ==
    /\ pc = "tick"
    /\ until = 0
    /\ ledger = LedgerIds
    /\ signatures = <<>>
    /\ fetch_ok = <<>>
    /\ transactions = <<>>
    /\ processed = <<>>
    /\ idx = 0
    /\ attempted = <<>>
    /\ n_parsed = 0
    /\ last_result = "none"
    /\ store = <<>>
    /\ table_exists = TRUE
    /\ response = NoResponse
    /\ stop_requested = FALSE
    /\ steps = <<>>
    /\ examined = 0
    /\ cycles = 0

\* a tick that starts a cycle whenever the deadline has passed, whatever the
\* task is doing
Tick_Overlapping ==
    /\ until <= 0
    /\ until' = until + Period
    /\ pc' = "fetch"
    /\ UNCHANGED outside
    /\ UNCHANGED stepwise
    /\ UNCHANGED <<ledger, signatures, fetch_ok, transactions, processed, idx,
                   attempted, n_parsed, last_result, store>>

\* interval.tick().await completes: the deadline has passed; the next deadline
\* is one period after this one (MissedTickBehavior::Burst, the default)
Tick ==
    /\ pc = "tick"
    /\ until <= 0
    /\ until' = until + Period
    /\ pc' = "fetch"
    /\ UNCHANGED outside
    /\ UNCHANGED stepwise
    /\ UNCHANGED <<ledger, signatures, fetch_ok, transactions, processed, idx,
                   attempted, n_parsed, last_result, store>>

\* the fetch error propagated out of monitor_blockchain
FetchEpochDataErr_Fatal ==
    /\ pc = "fetch"
    /\ pc' = "panicked"
    /\ last_result' = "err"
    /\ UNCHANGED outside
    /\ UNCHANGED stepwise
    /\ UNCHANGED <<until, ledger, signatures, fetch_ok, transactions, processed,
                   idx, attempted, n_parsed, store>>

\* fetch_epoch_data returns Err: fetch_transaction_signatures failed
FetchEpochDataErr ==
    /\ pc = "fetch"
    /\ pc' = "tick"
    /\ last_result' = "err"
    /\ UNCHANGED outside
    /\ UNCHANGED stepwise
    /\ UNCHANGED <<until, ledger, signatures, fetch_ok, transactions, processed,
                   idx, attempted, n_parsed, store>>

\* fetch_epoch_data returns Ok(transactions)
FetchEpochDataOk ==
    /\ pc = "fetch"
    /\ \E sigs \in SigLists(ledger) :
         \E ok \in [1..Len(sigs) -> BOOLEAN] :
            /\ signatures' = sigs
            /\ fetch_ok' = ok
            /\ transactions' = fetch_transactions(sigs, ok)
    /\ pc' = "process"
    /\ last_result' = "ok"
    /\ UNCHANGED outside
    /\ UNCHANGED stepwise
    /\ UNCHANGED <<until, ledger, processed, idx, attempted, n_parsed, store>>

\* process_transactions(txns) returns
ProcessOk ==
    /\ pc = "process"
    /\ \E overflow_checks \in BOOLEAN :
         ~process_panics(transactions, overflow_checks)
    /\ processed' = process_transactions(transactions)
    /\ n_parsed' = Len(filter_map_parse(transactions))
    /\ idx' = 0
    /\ attempted' = <<>>
    /\ signatures' = <<>>
    /\ fetch_ok' = <<>>
    /\ pc' = "insert"
    /\ UNCHANGED outside
    /\ UNCHANGED stepwise
    /\ UNCHANGED <<until, ledger, transactions, last_result, store>>

\* process_transactions(txns) panics in parse_transaction: the task ends
ProcessPanic ==
    /\ pc = "process"
    /\ \E overflow_checks \in BOOLEAN :
         process_panics(transactions, overflow_checks)
    /\ pc' = "panicked"
    /\ UNCHANGED outside
    /\ UNCHANGED stepwise
    /\ UNCHANGED <<until, ledger, signatures, fetch_ok, transactions, processed,
                   idx, attempted, n_parsed, last_result, store>>

\* one iteration of the insert loop, insert_transaction returns Ok
InsertOk ==
    /\ pc = "insert"
    /\ idx < Len(processed)
    /\ Len(store) < MaxRows
    /\ store' = insert_transaction(store, processed[idx + 1])
    /\ attempted' = Append(attempted, [txn |-> processed[idx + 1], ok |-> TRUE])
    /\ idx' = idx + 1
    /\ UNCHANGED outside
    /\ UNCHANGED stepwise
    /\ UNCHANGED <<pc, until, ledger, signatures, fetch_ok, transactions,
                   processed, n_parsed, last_result>>

\* an insert loop that stops at the first failed insert
InsertErr_Break ==
    /\ pc = "insert"
    /\ idx < Len(processed)
    /\ attempted' = Append(attempted, [txn |-> processed[idx + 1], ok |-> FALSE])
    /\ idx' = Len(processed)
    /\ UNCHANGED outside
    /\ UNCHANGED stepwise
    /\ UNCHANGED <<pc, until, ledger, signatures, fetch_ok, transactions,
                   processed, n_parsed, last_result, store>>

\* one iteration of the insert loop, insert_transaction returns Err
InsertErr ==
    /\ pc = "insert"
    /\ idx < Len(processed)
    /\ attempted' = Append(attempted, [txn |-> processed[idx + 1], ok |-> FALSE])
    /\ idx' = idx + 1
    /\ UNCHANGED outside
    /\ UNCHANGED stepwise
    /\ UNCHANGED <<pc, until, ledger, signatures, fetch_ok, transactions,
                   processed, n_parsed, last_result, store>>

\* the insert loop is over: back to the top of the loop
CycleEnd ==
    /\ pc = "insert"
    /\ idx = Len(processed)
    /\ pc' = "tick"
    /\ processed' = <<>>
    /\ attempted' = <<>>
    /\ idx' = 0
    /\ n_parsed' = 0
    /\ transactions' = <<>>
    /\ UNCHANGED outside
    /\ UNCHANGED stepwise
    /\ UNCHANGED <<until, ledger, signatures, fetch_ok, last_result, store>>

\* the task sleeps in interval.tick() until the deadline
Sleep ==
    /\ pc = "tick"
    /\ until > 0
    /\ until' = 0
    /\ UNCHANGED outside
    /\ UNCHANGED stepwise
    /\ UNCHANGED <<pc, ledger, signatures, fetch_ok, transactions, processed,
                   idx, attempted, n_parsed, last_result, store>>

Next ==
    \/ Tick
    \/ FetchEpochDataErr
    \/ FetchEpochDataOk
    \/ ProcessOk
    \/ ProcessPanic
    \/ InsertOk
    \/ InsertErr
    \/ CycleEnd
    \/ Sleep

Spec == Init /\ [][Next]_vars

-----------------------------------------------------------------------------
(* The poller with the duration of its work: a second passes at any point,  *)
(* except that a due tick completes before the next second passes           *)

InitTimed ==
    /\ pc = "tick"
    /\ until = 0
    /\ ledger = {1}
    /\ signatures = <<>>
    /\ fetch_ok = <<>>
    /\ transactions = <<>>
    /\ processed = <<>>
    /\ idx = 0
    /\ attempted = <<>>
    /\ n_parsed = 0
    /\ last_result = "none"
    /\ store = <<>>
    /\ table_exists = TRUE
    /\ response = NoResponse
    /\ stop_requested = FALSE
    /\ steps = <<>>
    /\ examined = 0
    /\ cycles = 0

Elapse ==
    /\ until > -MaxLag
    /\ ~(pc = "tick" /\ until <= 0)
    /\ until' = until - 1
    /\ UNCHANGED outside
    /\ UNCHANGED stepwise
    /\ UNCHANGED <<pc, ledger, signatures, fetch_ok, transactions, processed,
                   idx, attempted, n_parsed, last_result, store>>

NextTimed ==
    \/ Tick
    \/ FetchEpochDataErr
    \/ FetchEpochDataOk
    \/ ProcessOk
    \/ InsertOk
    \/ InsertErr
    \/ CycleEnd
    \/ Elapse

SpecTimed == InitTimed /\ [][NextTimed]_vars

-----------------------------------------------------------------------------
(* The store alone: one valid record, any amount, fee and timestamp, is    *)
(* handed to the insert loop with the table empty                          *)

I64Min == -(Modulus \div 2)

ValidRecords ==
    { r \in [ signature : {SignatureText(1)},
              sender : {ADDRESS_A, ADDRESS_B},
              receiver : {ADDRESS_A, ADDRESS_B},
              sol_amount : 0..U64Max,
              fee : 0..U64Max,
              timestamp : I64Min..I64Max,
              prev_blockhash : {BLOCKHASH} ] : is_valid_transaction(r) }

InitStore ==
    /\ pc = "insert"
    /\ until = Period
    /\ ledger = LedgerIds
    /\ signatures = <<>>
    /\ fetch_ok = <<>>
    /\ transactions = <<>>
    /\ \E r \in ValidRecords : processed = <<r>>
    /\ idx = 0
    /\ attempted = <<>>
    /\ n_parsed = 1
    /\ last_result = "ok"
    /\ store = <<>>
    /\ table_exists = TRUE
    /\ response = NoResponse
    /\ stop_requested = FALSE
    /\ steps = <<>>
    /\ examined = 0
    /\ cycles = 0

NextStore ==
    \/ InsertOk
    \/ InsertErr
    \/ CycleEnd

SpecStore == InitStore /\ [][NextStore]_vars

-----------------------------------------------------------------------------
(* The process: main sets up the schema and starts the poller and the API  *)
(* server, which answer and poll concurrently; the process can be asked to *)
(* terminate and be started again on the same database                     *)

\* the record parse_transaction returns for ledger transaction 1
PriorRecord == parse_transaction(RawTxn(1))[1]

InitSystem ==
    /\ pc = "main"
    /\ until = 0
    /\ ledger = {1, 2}
    /\ signatures = <<>>
    /\ fetch_ok = <<>>
    /\ transactions = <<>>
    /\ processed = <<>>
    /\ idx = 0
    /\ attempted = <<>>
    /\ n_parsed = 0
    /\ last_result = "none"
    /\ table_exists \in BOOLEAN
    /\ store \in (IF table_exists THEN {<<>>, <<row_of(PriorRecord)>>} ELSE {<<>>})
    /\ response = NoResponse
    /\ stop_requested = FALSE
    /\ steps = <<>>
    /\ examined = 0
    /\ cycles = 0

\* main: get_pool succeeds, the poller task is spawned and the server runs
GetPoolOk ==
    /\ pc = "main"
    /\ table_exists' = TRUE
    /\ store' = create_table_if_not_exists(table_exists, store)
    /\ pc' = "tick"
    /\ UNCHANGED <<until, ledger, signatures, fetch_ok, transactions, processed,
                   idx, attempted, n_parsed, last_result, response,
                   stop_requested>>
    /\ UNCHANGED stepwise

\* main: get_pool fails (connect or CREATE TABLE), main returns the error
GetPoolErr ==
    /\ pc = "main"
    /\ pc' = "exit"
    /\ UNCHANGED <<until, ledger, signatures, fetch_ok, transactions, processed,
                   idx, attempted, n_parsed, last_result, store, table_exists,
                   response, stop_requested>>
    /\ UNCHANGED stepwise

\* the server is up: main is past get_pool and has not returned
Serving == pc \in {"tick", "fetch", "process", "insert", "panicked"}

\* a handler that waits for the poller to be between two cycles
QueryOk_Blocking ==
    /\ pc = "tick"
    /\ response' = [read |-> "ok", status |-> "200",
                    body |-> get_all_transactions(store)]
    /\ UNCHANGED <<pc, until, ledger, signatures, fetch_ok, transactions,
                   processed, idx, attempted, n_parsed, last_result, store,
                   table_exists, stop_requested>>
    /\ UNCHANGED stepwise

\* get_transactions: get_all_transactions returns Ok(transactions)
QueryOk ==
    /\ Serving
    /\ response' = [read |-> "ok", status |-> "200",
                    body |-> get_all_transactions(store)]
    /\ UNCHANGED <<pc, until, ledger, signatures, fetch_ok, transactions,
                   processed, idx, attempted, n_parsed, last_result, store,
                   table_exists, stop_requested>>
    /\ UNCHANGED stepwise

\* a handler that answers a failed read with an error status
QueryErr_ErrorStatus ==
    /\ Serving
    /\ response' = [read |-> "err", status |-> "500", body |-> <<>>]
    /\ UNCHANGED <<pc, until, ledger, signatures, fetch_ok, transactions,
                   processed, idx, attempted, n_parsed, last_result, store,
                   table_exists, stop_requested>>
    /\ UNCHANGED stepwise

\* get_transactions: get_all_transactions returns Err
QueryErr ==
    /\ Serving
    /\ response' = [read |-> "err", status |-> "200", body |-> <<>>]
    /\ UNCHANGED <<pc, until, ledger, signatures, fetch_ok, transactions,
                   processed, idx, attempted, n_parsed, last_result, store,
                   table_exists, stop_requested>>
    /\ UNCHANGED stepwise

\* the process is asked to terminate: the server starts to shut down
StopRequest ==
    /\ Serving
    /\ ~stop_requested
    /\ stop_requested' = TRUE
    /\ UNCHANGED <<pc, until, ledger, signatures, fetch_ok, transactions,
                   processed, idx, attempted, n_parsed, last_result, store,
                   table_exists, response>>
    /\ UNCHANGED stepwise

\* api::main returns and main with it: the runtime drops the poller task where
\* it awaits (interval.tick() or insert_transaction)
RuntimeShutdown ==
    /\ stop_requested
    /\ pc \in {"tick", "insert"}
    /\ pc' = "exit"
    /\ signatures' = <<>>
    /\ fetch_ok' = <<>>
    /\ transactions' = <<>>
    /\ processed' = <<>>
    /\ idx' = 0
    /\ attempted' = <<>>
    /\ n_parsed' = 0
    /\ UNCHANGED <<until, ledger, last_result, store, table_exists, response,
                   stop_requested>>
    /\ UNCHANGED stepwise

\* the process is started again on the same database
ProcessStart ==
    /\ pc = "exit"
    /\ pc' = "main"
    /\ until' = 0
    /\ last_result' = "none"
    /\ stop_requested' = FALSE
    /\ UNCHANGED <<ledger, signatures, fetch_ok, transactions, processed, idx,
                   attempted, n_parsed, store, table_exists, response>>
    /\ UNCHANGED stepwise

NextSystem ==
    \/ GetPoolOk
    \/ GetPoolErr
    \/ Tick
    \/ FetchEpochDataErr
    \/ FetchEpochDataOk
    \/ ProcessOk
    \/ InsertOk
    \/ InsertErr
    \/ CycleEnd
    \/ Sleep
    \/ QueryOk
    \/ QueryErr
    \/ StopRequest
    \/ RuntimeShutdown
    \/ ProcessStart

SpecSystem == InitSystem /\ [][NextSystem]_vars

-----------------------------------------------------------------------------
(* The parser and the validator alone: process_transactions is handed a     *)
(* batch of one raw transaction of any shape                               *)

\* 32 characters of the alphabet: matches the regex, not the length check
SHORT_KEY == Rep("A", RegexMin)

\* one character more than the regex allows
LONG_KEY == Rep("A", RegexMax + 1)

\* PubkeyLen characters, the last one c
KeyEndingIn(c) == Append(Rep("A", PubkeyLen - 1), c)

\* recent_blockhash of the fixture of tests::test_parse_transaction
TEST_BLOCKHASH ==
    <<"r", "e", "c", "e", "n", "t", "_",
      "b", "l", "o", "c", "k", "h", "a", "s", "h">>

KeyLists ==
    { <<>>,
      <<ADDRESS_A>>,
      <<ADDRESS_A, ADDRESS_B>>,
      <<ADDRESS_B, ADDRESS_A>>,
      <<ADDRESS_A, SHORT_KEY>>,
      <<LONG_KEY, ADDRESS_B>>,
      <<KeyEndingIn("0"), ADDRESS_B>>,
      <<ADDRESS_A, KeyEndingIn("O")>>,
      <<KeyEndingIn("I"), ADDRESS_B>>,
      <<ADDRESS_A, KeyEndingIn("l")>>,
      <<ADDRESS_A, ADDRESS_B, ADDRESS_A>>,
      <<ADDRESS_A, ADDRESS_A, ADDRESS_B>> }

Blockhashes == { BLOCKHASH, SHORT_KEY, KeyEndingIn("0"), TEST_BLOCKHASH }

\* pre- and post-balances: amount 1, amount 0, amount above i64::MAX, arrays
\* of one entry, post below pre at index 1
Balances ==
    { << <<10, 5>>, <<8, 6>> >>,
      << <<5, 5>>, <<5, 5>> >>,
      << <<U64Max, 1>>, <<2, U64Max - 2>> >>,
      << <<10>>, <<9>> >>,
      << <<5, 9>>, <<6, 7>> >> }

\* encoding and message of an EncodedTransaction: Json with a parsed message,
\* Json with a raw message, a binary encoding (no message)
Shapes == { <<"json", "parsed">>, <<"json", "raw">>, <<"binary", "none">> }

RawTxns ==
    { [ encoding |-> shape[1],
        message |-> shape[2],
        signatures |-> sigs,
        account_keys |-> keys,
        recent_blockhash |-> hash,
        meta |-> meta,
        fee |-> fee,
        pre_balances |-> bal[1],
        post_balances |-> bal[2],
        block_time |-> time ] :
        shape \in Shapes,
        sigs \in { <<>>, <<SignatureText(1)>>,
                  <<SignatureText(2), SignatureText(1)>> },
        keys \in KeyLists,
        hash \in Blockhashes,
        meta \in { "some", "none" },
        fee \in { 0, 1, U64Max },
        bal \in Balances,
        time \in { None, Some(-1), Some(5) } }

InitParse ==
    /\ pc = "process"
    /\ until = Period
    /\ ledger = LedgerIds
    /\ signatures = <<>>
    /\ fetch_ok = <<>>
    /\ \E txn \in RawTxns : transactions = <<txn>>
    /\ processed = <<>>
    /\ idx = 0
    /\ attempted = <<>>
    /\ n_parsed = 0
    /\ last_result = "ok"
    /\ store = <<>>
    /\ table_exists = TRUE
    /\ response = NoResponse
    /\ stop_requested = FALSE
    /\ steps = <<>>
    /\ examined = 0
    /\ cycles = 0

NextParse ==
    \/ ProcessOk
    \/ ProcessPanic

SpecParse == InitParse /\ [][NextParse]_vars

-----------------------------------------------------------------------------
(* The cycle statement by statement: every call of fetch_epoch_data, every  *)
(* element process_transactions consumes and every insert is a step, logged *)
(* in steps when it completes                                               *)

\* three valid transactions and one whose balance arrays have one entry
StepLedger == {1, 2, 3, 7}

\* a completed call: n is the number of signatures returned, or the position
\* of the element the call was about
Step(name, n) == [step |-> name, n |-> n]

InitSteps ==
    /\ pc = "tick"
    /\ until = 0
    /\ ledger = StepLedger
    /\ signatures = <<>>
    /\ fetch_ok = <<>>
    /\ transactions = <<>>
    /\ processed = <<>>
    /\ idx = 0
    /\ attempted = <<>>
    /\ n_parsed = 0
    /\ last_result = "none"
    /\ store = <<>>
    /\ table_exists = TRUE
    /\ response = NoResponse
    /\ stop_requested = FALSE
    /\ steps = <<>>
    /\ examined = 0
    /\ cycles = 0

\* interval.tick().await completes and fetch_epoch_data is called
CycleStart ==
    /\ pc = "tick"
    /\ until <= 0
    /\ cycles < MaxCycles
    /\ until' = until + Period
    /\ cycles' = cycles + 1
    /\ pc' = "signatures"
    /\ UNCHANGED outside
    /\ UNCHANGED <<ledger, signatures, fetch_ok, transactions, processed, idx,
                   attempted, n_parsed, last_result, store, steps, examined>>

\* fetch_transaction_signatures returns Err and fetch_epoch_data with it
FetchSignaturesErr ==
    /\ pc = "signatures"
    /\ pc' = "tick"
    /\ last_result' = "err"
    /\ UNCHANGED outside
    /\ UNCHANGED stepwise
    /\ UNCHANGED <<until, ledger, signatures, fetch_ok, transactions, processed,
                   idx, attempted, n_parsed, store>>

\* fetch_transaction_signatures returns Ok(signature_list)
FetchSignaturesOk ==
    /\ pc = "signatures"
    /\ \E sigs \in SigLists(ledger) :
         /\ signatures' = sigs
         /\ steps' = Append(steps, Step("signatures", Len(sigs)))
    /\ pc' = "transactions"
    /\ UNCHANGED outside
    /\ UNCHANGED <<until, ledger, fetch_ok, transactions, processed, idx,
                   attempted, n_parsed, last_result, store, examined, cycles>>

\* one iteration of the loop of fetch_transactions: the call returns Ok(txn)
FetchTransactionOk ==
    /\ pc = "transactions"
    /\ Len(fetch_ok) < Len(signatures)
    /\ fetch_ok' = Append(fetch_ok, TRUE)
    /\ transactions' = Append(transactions, RawTxn(signatures[Len(fetch_ok) + 1]))
    /\ steps' = Append(steps, Step("transaction", Len(fetch_ok) + 1))
    /\ UNCHANGED outside
    /\ UNCHANGED <<pc, until, ledger, signatures, processed, idx, attempted,
                   n_parsed, last_result, store, examined, cycles>>

\* one iteration of the loop of fetch_transactions: the call returns Err
FetchTransactionErr ==
    /\ pc = "transactions"
    /\ Len(fetch_ok) < Len(signatures)
    /\ fetch_ok' = Append(fetch_ok, FALSE)
    /\ steps' = Append(steps, Step("transaction", Len(fetch_ok) + 1))
    /\ UNCHANGED outside
    /\ UNCHANGED <<pc, until, ledger, signatures, transactions, processed, idx,
                   attempted, n_parsed, last_result, store, examined, cycles>>

\* fetch_transactions and fetch_epoch_data return Ok(transactions);
\* process_transactions is called
FetchEpochDataReturn ==
    /\ pc = "transactions"
    /\ Len(fetch_ok) = Len(signatures)
    /\ pc' = "process"
    /\ last_result' = "ok"
    /\ signatures' = <<>>
    /\ fetch_ok' = <<>>
    /\ UNCHANGED outside
    /\ UNCHANGED stepwise
    /\ UNCHANGED <<until, ledger, transactions, processed, idx, attempted,
                   n_parsed, store>>

\* collect() pulls one element through filter_map(parse_transaction) and
\* filter(is_valid_transaction)
ExamineOk ==
    /\ pc = "process"
    /\ examined < Len(transactions)
    /\ \E overflow_checks \in BOOLEAN :
         ~parse_panics(transactions[examined + 1], overflow_checks)
    /\ LET parsed == parse_transaction(transactions[examined + 1])
       IN  /\ n_parsed' = n_parsed + Len(parsed)
           /\ processed' = IF parsed = None THEN processed
                           ELSE IF is_valid_transaction(parsed[1])
                                THEN Append(processed, parsed[1])
                                ELSE processed
    /\ examined' = examined + 1
    /\ steps' = Append(steps, Step("process", examined + 1))
    /\ UNCHANGED outside
    /\ UNCHANGED <<pc, until, ledger, signatures, fetch_ok, transactions, idx,
                   attempted, last_result, store, cycles>>

\* parse_transaction panics on the element: the task ends
ExaminePanic ==
    /\ pc = "process"
    /\ examined < Len(transactions)
    /\ \E overflow_checks \in BOOLEAN :
         parse_panics(transactions[examined + 1], overflow_checks)
    /\ pc' = "panicked"
    /\ UNCHANGED outside
    /\ UNCHANGED stepwise
    /\ UNCHANGED <<until, ledger, signatures, fetch_ok, transactions, processed,
                   idx, attempted, n_parsed, last_result, store>>

\* process_transactions returns processed_txns; the insert loop begins
ProcessReturn ==
    /\ pc = "process"
    /\ examined = Len(transactions)
    /\ pc' = "insert"
    /\ UNCHANGED outside
    /\ UNCHANGED stepwise
    /\ UNCHANGED <<until, ledger, signatures, fetch_ok, transactions, processed,
                   idx, attempted, n_parsed, last_result, store>>

\* an insert loop that runs while process_transactions still collects
InsertStepOk_Streaming ==
    /\ pc \in {"process", "insert"}
    /\ idx < Len(processed)
    /\ store' = insert_transaction(store, processed[idx + 1])
    /\ attempted' = Append(attempted, [txn |-> processed[idx + 1], ok |-> TRUE])
    /\ idx' = idx + 1
    /\ steps' = Append(steps, Step("insert", idx + 1))
    /\ UNCHANGED outside
    /\ UNCHANGED <<pc, until, ledger, signatures, fetch_ok, transactions,
                   processed, n_parsed, last_result, examined, cycles>>

\* one iteration of the insert loop, insert_transaction returns Ok
InsertStepOk ==
    /\ pc = "insert"
    /\ idx < Len(processed)
    /\ store' = insert_transaction(store, processed[idx + 1])
    /\ attempted' = Append(attempted, [txn |-> processed[idx + 1], ok |-> TRUE])
    /\ idx' = idx + 1
    /\ steps' = Append(steps, Step("insert", idx + 1))
    /\ UNCHANGED outside
    /\ UNCHANGED <<pc, until, ledger, signatures, fetch_ok, transactions,
                   processed, n_parsed, last_result, examined, cycles>>

\* one iteration of the insert loop, insert_transaction returns Err
InsertStepErr ==
    /\ pc = "insert"
    /\ idx < Len(processed)
    /\ attempted' = Append(attempted, [txn |-> processed[idx + 1], ok |-> FALSE])
    /\ idx' = idx + 1
    /\ steps' = Append(steps, Step("insert", idx + 1))
    /\ UNCHANGED outside
    /\ UNCHANGED <<pc, until, ledger, signatures, fetch_ok, transactions,
                   processed, n_parsed, last_result, store, examined, cycles>>

\* the insert loop is over: back to the top of the loop
CycleReturn ==
    /\ pc = "insert"
    /\ idx = Len(processed)
    /\ pc' = "tick"
    /\ transactions' = <<>>
    /\ processed' = <<>>
    /\ idx' = 0
    /\ attempted' = <<>>
    /\ n_parsed' = 0
    /\ steps' = <<>>
    /\ examined' = 0
    /\ UNCHANGED outside
    /\ UNCHANGED <<until, ledger, signatures, fetch_ok, last_result, store,
                   cycles>>

NextSteps ==
    \/ CycleStart
    \/ FetchSignaturesErr
    \/ FetchSignaturesOk
    \/ FetchTransactionOk
    \/ FetchTransactionErr
    \/ FetchEpochDataReturn
    \/ ExamineOk
    \/ ExaminePanic
    \/ ProcessReturn
    \/ InsertStepOk
    \/ InsertStepErr
    \/ CycleReturn
    \/ Sleep

SpecSteps == InitSteps /\ [][NextSteps]_vars

-----------------------------------------------------------------------------
(* Claims *)

RECURSIVE CountSignature(_, _)
CountSignature(records, signature) ==
    IF records = <<>> THEN 0
    ELSE (IF Head(records).signature = signature THEN 1 ELSE 0)
         + CountSignature(Tail(records), signature)

\* C1: in every reachable state the store holds at most one row per signature,
\* also when the ledger returns the same signature in consecutive cycles.
C1_OneRowPerSignature ==
    \A i, j \in 1..Len(store) :
        i # j => store[i].signature # store[j].signature

\* C2: for every record r about to be inserted and every store state, inserting
\* r twice in succession leaves readAll() with exactly one record of r's
\* signature, the same result as inserting r once.
C2_InsertIdempotent ==
    \A i \in 1..Len(processed) :
        LET r == processed[i]
            once == insert_transaction(store, r)
            twice == insert_transaction(once, r)
        IN  /\ CountSignature(get_all_transactions(twice), r.signature) = 1
            /\ get_all_transactions(twice) = get_all_transactions(once)

\* A cycle's work is in progress
InProgress == pc \in {"fetch", "process", "insert"}

\* C3: single-flight: a cycle starts (the interval's deadline moves on) only
\* when no cycle is in progress, that is after the previous cycle's insert loop
\* has ended, whatever time the work took.
C3_SingleFlight ==
    [][until' > until =>
          /\ ~InProgress
          /\ processed = <<>>
          /\ attempted = <<>>
          /\ idx = 0]_vars

\* C3 witness: a nominal tick time has passed while inserts are still pending
C3_Witness ==
    /\ pc = "insert"
    /\ idx < Len(processed)
    /\ until < 0

\* C4: ticks whose nominal time passes while a cycle's work is running are
\* dropped, not queued: once a cycle has started, the interval's next deadline
\* lies in the future, so no further cycle starts for an earlier missed tick and
\* the cycles never catch up with the nominal ticks.
C4_MissedTicksDropped ==
    [][until' > until => until' > 0]_vars

\* C5: every record handed to insert_transaction, and every record the store
\* returns, satisfies all validator rules.
C5_OnlyValidStored ==
    /\ \A i \in 1..Len(attempted) : is_valid_transaction(attempted[i].txn)
    /\ \A i \in 1..Len(store) :
          is_valid_transaction(get_all_transactions(store)[i])

\* C5 witness: the batch had a parsed record that failed validation, and the
\* record that passed was inserted
C5_Witness ==
    /\ pc = "insert"
    /\ n_parsed > Len(processed)
    /\ idx = Len(processed)
    /\ \E i \in 1..Len(attempted) : attempted[i].ok
    /\ store # <<>>

\* C6: a per-record failure never becomes a per-cycle failure: no raw
\* transaction of a batch makes parse_transaction abort, so the poller never
\* ends in a panic and every batch goes on to validation and insert.
C6_ParseNeverAborts == pc # "panicked"

\* C7: when fetch_epoch_data fails the cycle ends there: the poller is back at
\* the top of its loop with the interval's deadline as it was, nothing was
\* fetched, parsed or inserted and the store is unchanged.
C7_FetchFailureSkipsCycle ==
    [][(pc = "fetch" /\ last_result' = "err") =>
          /\ pc' = "tick"
          /\ until' = until
          /\ store' = store
          /\ transactions' = <<>>
          /\ processed' = <<>>
          /\ attempted' = <<>>]_vars

\* C7 witness: the poller waits for the next tick after a failed fetch that
\* followed a cycle with a successful insert
C7_Witness ==
    /\ pc = "tick"
    /\ last_result = "err"
    /\ store # <<>>

\* C8: insert is attempted, in order, for every record that passed validation,
\* whichever inserts fail, and the loop goes on.
C8_AllInsertsAttempted ==
    pc = "insert" =>
        /\ Len(attempted) = idx
        /\ \A i \in 1..Len(attempted) : attempted[i].txn = processed[i]
        /\ idx = Len(processed) =>
              [i \in 1..Len(attempted) |-> attempted[i].txn] = processed

\* C8 witness: a failed insert was followed by a successful one in the cycle
C8_Witness ==
    /\ pc = "insert"
    /\ idx = Len(processed)
    /\ \E i, j \in 1..Len(attempted) :
          i < j /\ ~attempted[i].ok /\ attempted[j].ok

\* the positions of the signatures whose fetch succeeded
FetchedPositions == { i \in 1..Len(signatures) : fetch_ok[i] }

\* the k-th of them
NthFetched(k) ==
    CHOOSE i \in FetchedPositions :
        Cardinality({ j \in FetchedPositions : j <= i }) = k

\* C9: fetch_epoch_data succeeds whichever transaction fetches fail, and returns
\* exactly the transactions of the signatures whose fetch succeeded, in
\* signature order; the cycle goes on to processing.
C9_FailedFetchSkipped ==
    pc = "process" =>
        /\ last_result = "ok"
        /\ Len(transactions) = Cardinality(FetchedPositions)
        /\ \A k \in 1..Len(transactions) :
              transactions[k] = RawTxn(signatures[NthFetched(k)])

\* C9 witness: the second of three fetches failed
C9_Witness ==
    /\ pc = "process"
    /\ fetch_ok = <<TRUE, FALSE, TRUE>>
    /\ Len(transactions) = 2

\* C10: round trip: after a successful insert of a valid record r, readAll()
\* returns the records it returned before followed by r, equal in all seven
\* fields; on an empty store it returns r alone.
C10_RoundTrip ==
    [][store' # store =>
          /\ is_valid_transaction(processed[idx + 1])
          /\ get_all_transactions(store') =
                Append(get_all_transactions(store), processed[idx + 1])]_vars

\* C10 witness: a record with an amount above i64::MAX is in the store
C10_Witness ==
    /\ Len(store) = 1
    /\ store[1].sol_amount < 0
    /\ get_all_transactions(store)[1].sol_amount > I64Max

\* C11: cooperative shutdown: once the process has been asked to terminate,
\* the poller starts no new cycle.
C11_NoCycleAfterStop ==
    [][stop_requested => ~(pc = "tick" /\ pc' = "fetch")]_vars

\* C12: a query at any point of a poll cycle returns only whole records, each
\* equal in all fields to a row whose insert has completed, and it is never
\* made to wait for the cycle: whenever the server is up the read can complete.
C12_QueryConsistent ==
    /\ \A k \in 1..Len(response.body) :
          /\ k <= Len(store)
          /\ response.body[k] = get_all_transactions(store)[k]
          /\ is_valid_transaction(response.body[k])
    /\ Serving => ENABLED QueryOk

\* C12 witness: a query in the middle of the insert loop saw the first of the
\* cycle's two inserts
C12_Witness ==
    /\ pc = "insert"
    /\ Len(processed) = 2
    /\ idx = 1
    /\ attempted[1].ok
    /\ Len(store) = 1
    /\ response.read = "ok"
    /\ Len(response.body) = 1

\* C13: stored records are immutable: every step keeps every stored row, in its
\* place and with all fields unchanged.
C13_StoredRowsImmutable ==
    [][\A i \in 1..Len(store) :
          /\ i <= Len(store')
          /\ store'[i] = store[i]]_vars

\* C13 witness: a row was stored and read, a later insert followed, and the
\* process was started again
C13_Witness ==
    /\ Len(store) = 2
    /\ response.read = "ok"
    /\ Len(response.body) = 1
    /\ pc = "tick"
    /\ last_result = "none"

\* C14: get_pool on an existing table succeeds and leaves every stored row
\* unchanged, and running it again changes nothing more.
C14_EnsureSchemaIdempotent ==
    [][(pc = "main" /\ pc' = "tick") =>
          LET once == create_table_if_not_exists(table_exists, store)
          IN  /\ table_exists'
              /\ store' = once
              /\ table_exists => store' = store
              /\ create_table_if_not_exists(TRUE, once) = once]_vars

\* C14 witness: get_pool has run at a process start on a table that held a row
C14_Witness ==
    /\ pc = "tick"
    /\ last_result = "none"
    /\ until = 0
    /\ store # <<>>

\* C15: the endpoint answers with status 200 and the full result of
\* get_all_transactions when the read succeeds, and with status 200 and an empty
\* array when the read fails.
C15_QueryDegradesToEmpty ==
    [][response' # response =>
          /\ response'.status = "200"
          /\ response'.read = "ok" =>
                response'.body = get_all_transactions(store)
          /\ response'.read = "err" => response'.body = <<>>]_vars

\* C15 witness: a failed read was answered with an empty array while the store
\* held a row
C15_Witness ==
    /\ response.read = "err"
    /\ response.status = "200"
    /\ response.body = <<>>
    /\ store # <<>>

\* letters and digits
Alphanumeric ==
    { "0", "1", "2", "3", "4", "5", "6", "7", "8", "9",
      "A", "B", "C", "D", "E", "F", "G", "H", "I", "J", "K", "L", "M",
      "N", "O", "P", "Q", "R", "S", "T", "U", "V", "W", "X", "Y", "Z",
      "a", "b", "c", "d", "e", "f", "g", "h", "i", "j", "k", "l", "m",
      "n", "o", "p", "q", "r", "s", "t", "u", "v", "w", "x", "y", "z" }

\* the address syntax rule: fixed length, alphanumeric, none of 0 O I l
AddressSyntax(text) ==
    /\ Len(text) = PubkeyLen
    /\ \A i \in 1..Len(text) : text[i] \in Alphanumeric \ { "0", "O", "I", "l" }

\* every rule but the two on amount and fee
RulesBesideAmountAndFee(r) ==
    /\ r.signature # <<>>
    /\ AddressSyntax(r.sender)
    /\ AddressSyntax(r.receiver)
    /\ r.sender # r.receiver
    /\ r.timestamp >= 0
    /\ AddressSyntax(r.prev_blockhash)

AllRules(r) ==
    /\ RulesBesideAmountAndFee(r)
    /\ r.sol_amount > 0
    /\ r.fee > 0

\* the records parse_transaction returned for the batch in hand
Parsed == filter_map_parse(transactions)

\* process_transactions kept r
Accepted(r) == \E j \in 1..Len(processed) : processed[j] = r

\* C16: is_valid_transaction holds of a parsed record exactly when the record
\* has a non-empty signature, a sender and a receiver of the address syntax
\* that differ, a positive amount, a positive fee, a timestamp of at least zero
\* and a block hash of the address syntax; process_transactions keeps exactly
\* those records, so a record failing one rule alone is rejected.
C16_ValidIffAllRules ==
    pc = "insert" =>
        /\ \A i \in 1..Len(Parsed) :
              is_valid_transaction(Parsed[i]) <=> AllRules(Parsed[i])
        /\ processed = SelectSeq(Parsed, AllRules)

\* C16 witness: a record whose only fault is a block hash of 32 characters of
\* the alphabet was parsed and rejected
C16_Witness ==
    /\ pc = "insert"
    /\ n_parsed = 1
    /\ processed = <<>>
    /\ Parsed[1].prev_blockhash = SHORT_KEY
    /\ AllRules([Parsed[1] EXCEPT !.prev_blockhash = BLOCKHASH])

\* C17: a parsed record whose sender equals its receiver is not valid and is not
\* kept, whatever its other fields are.
C17_SelfTransferRejected ==
    pc = "insert" =>
        \A i \in 1..Len(Parsed) :
            Parsed[i].sender = Parsed[i].receiver =>
                /\ ~is_valid_transaction(Parsed[i])
                /\ ~Accepted(Parsed[i])

\* C17 witness: a record from one valid address to itself, every other field
\* valid, was parsed and rejected
C17_Witness ==
    /\ pc = "insert"
    /\ n_parsed = 1
    /\ processed = <<>>
    /\ Parsed[1].sender = ADDRESS_A
    /\ Parsed[1].receiver = ADDRESS_A
    /\ AllRules([Parsed[1] EXCEPT !.receiver = ADDRESS_B])

\* C18: among parsed records whose other fields are valid, one with amount 0 is
\* rejected, one with fee 0 is rejected, and one with amount 1 and fee 1 is
\* accepted.
C18_AmountFeeBoundary ==
    pc = "insert" =>
        \A i \in 1..Len(Parsed) :
            RulesBesideAmountAndFee(Parsed[i]) =>
                /\ Parsed[i].sol_amount = 0 => ~Accepted(Parsed[i])
                /\ Parsed[i].fee = 0 => ~Accepted(Parsed[i])
                /\ (Parsed[i].sol_amount = 1 /\ Parsed[i].fee = 1) =>
                      /\ is_valid_transaction(Parsed[i])
                      /\ Accepted(Parsed[i])

\* C18 witness: a record with amount 1 and fee 1 was accepted
C18_Witness ==
    /\ pc = "insert"
    /\ Len(processed) = 1
    /\ processed[1].sol_amount = 1
    /\ processed[1].fee = 1

\* C19: parse_transaction returns None for a transaction whose message is not
\* in parsed form, whatever its metadata, signatures and block time are: it
\* does not panic and process_transactions gets no record from it.
C19_RawMessageAbsent ==
    \A i \in 1..Len(transactions) :
        transactions[i].message # "parsed" =>
            /\ parse_transaction(transactions[i]) = None
            /\ Len(transactions) = 1 => pc # "panicked"
            /\ (Len(transactions) = 1 /\ pc = "insert") =>
                  n_parsed = 0 /\ processed = <<>>

\* C19 witness: a Json transaction with a raw message, with metadata, a
\* signature and a block time, went through process_transactions
C19_Witness ==
    /\ pc = "insert"
    /\ Len(transactions) = 1
    /\ transactions[1].encoding = "json"
    /\ transactions[1].message = "raw"
    /\ transactions[1].meta = "some"
    /\ has_balances(transactions[1])
    /\ transactions[1].signatures # <<>>
    /\ transactions[1].block_time # None
    /\ n_parsed = 0

\* C20: parse_transaction returns None for a transaction without metadata,
\* whatever its message, account keys, signatures and block time are: it does
\* not panic and process_transactions gets no record from it.
C20_MissingMetaAbsent ==
    \A i \in 1..Len(transactions) :
        transactions[i].meta # "some" =>
            /\ parse_transaction(transactions[i]) = None
            /\ Len(transactions) = 1 => pc # "panicked"
            /\ (Len(transactions) = 1 /\ pc = "insert") =>
                  n_parsed = 0 /\ processed = <<>>

\* C20 witness: a Json transaction with a parsed message, two valid account
\* keys, a signature and a block time, but no metadata, went through
\* process_transactions
C20_Witness ==
    /\ pc = "insert"
    /\ Len(transactions) = 1
    /\ transactions[1].encoding = "json"
    /\ transactions[1].message = "parsed"
    /\ transactions[1].meta = "none"
    /\ transactions[1].account_keys = <<ADDRESS_A, ADDRESS_B>>
    /\ transactions[1].signatures # <<>>
    /\ transactions[1].block_time # None
    /\ n_parsed = 0

\* C21: the record parse_transaction returns carries the first entry of the
\* signature list, and a transaction with an empty signature list yields no
\* record.
C21_SignatureFirstOrAbsent ==
    (pc = "insert" /\ Len(transactions) = 1) =>
        /\ transactions[1].signatures = <<>> => n_parsed = 0
        /\ n_parsed = 1 =>
              /\ transactions[1].signatures # <<>>
              /\ Parsed[1].signature = Head(transactions[1].signatures)

\* C22: for a transaction with a parsed message and metadata, the record
\* parse_transaction returns has the amount post_balances[1] - pre_balances[1],
\* the fee of the metadata, and the block time or 0 as its timestamp.
C22_AmountFeeTimestamp ==
    (pc = "insert" /\ Len(transactions) = 1 /\ n_parsed = 1) =>
        LET txn == transactions[1]
            r == Parsed[1]
        IN  /\ r.sol_amount = txn.post_balances[BalanceIndex]
                                 - txn.pre_balances[BalanceIndex]
            /\ r.fee = txn.fee
            /\ r.timestamp = IF txn.block_time = None THEN 0
                             ELSE txn.block_time[1]

\* position of a kind of call in the order of a cycle
Rank(name) ==
    CASE name = "signatures" -> 1
      [] name = "transaction" -> 2
      [] name = "process" -> 3
      [] OTHER -> 4

\* calls of a kind among the first k logged
CountSteps(name, k) == Cardinality({ i \in 1..k : steps[i].step = name })

\* C23: in a cycle the signature fetch completes first; no transaction fetch
\* completes after an element was parsed and validated, and the first element
\* is parsed only when a fetch was made for each signature; no element is
\* parsed after an insert, and the first insert is made only when every
\* element of the batch was parsed and validated.
C23_StepsOrdered ==
    /\ steps # <<>> => steps[1].step = "signatures"
    /\ \A j \in 1..Len(steps) :
          /\ steps[j].step = "signatures" => j = 1
          /\ \A i \in 1..(j - 1) : Rank(steps[i].step) <= Rank(steps[j].step)
          /\ steps[j].step = "process" =>
                CountSteps("transaction", j - 1) = steps[1].n
          /\ steps[j].step = "insert" =>
                CountSteps("process", j - 1) = Len(transactions)

\* C23 witness: a cycle with three signatures, three fetched transactions,
\* three parsed records and three inserts has made its last insert
C23_Witness ==
    /\ pc = "insert"
    /\ Len(steps) = 10
    /\ steps[1] = Step("signatures", 3)
    /\ steps[4] = Step("transaction", 3)
    /\ steps[7] = Step("process", 3)
    /\ steps[10] = Step("insert", 3)

\* C24: a cycle gets at most SigLimit signatures, makes at most SigLimit
\* transaction fetches and at most SigLimit calls of insert_transaction, and
\* the table holds at most SigLimit rows per cycle started.
C24_WorkBounded ==
    /\ Len(signatures) <= SigLimit
    /\ steps # <<>> => steps[1].n <= SigLimit
    /\ CountSteps("transaction", Len(steps)) <= SigLimit
    /\ Len(transactions) <= SigLimit
    /\ CountSteps("insert", Len(steps)) <= SigLimit
    /\ Len(attempted) <= SigLimit
    /\ Len(store) <= SigLimit * cycles

\* C24 witness: two cycles of three inserts each have filled the table with six
\* rows
C24_Witness ==
    /\ pc = "tick"
    /\ cycles = 2
    /\ Len(store) = 6

====
